---- MODULE Spec2Model ----
(***************************************************************************)
(* Model of queue.Queue[T] (src/queue/queue.go), a double-ended queue on   *)
(* a circular buffer whose capacity is doubled and halved.  T is int.      *)
(* A queue is a record of the four fields of the Go struct plus `panic`,   *)
(* which records that a run-time panic (index or slice bounds out of       *)
(* range) unwound the call.  A nil slice is the empty function.            *)
(***************************************************************************)
EXTENDS Integers, Sequences, FiniteSets, TLC

\* ---------------------------------------------------------------- bounds
\* pushes are disabled once the queue holds MaxLen elements
MaxLen == 9
\* number of pushes counted in SpecCount
MaxPushes == 9
\* largest N of the round-trip scripts
MaxN == 17
\* pushes on the twin queues are disabled once they hold MaxTwin elements
MaxTwin == 4
\* pushes of the roaming caller are disabled once the queue holds MaxRoam elements
MaxRoam == 33

\* ---------------------------------------------------------------- values
\* *new(T), the zero value of T
Zero == 0
\* the values pushed by the free-running specifications
Values == {Zero, 1}

VARIABLES
    q,      \* the queue returned by New()
    z,      \* a zero-value Queue (never passed to New or Init) given the same calls
    pre,    \* q as it was before the last call
    zpre,   \* z as it was before the last call
    ret,    \* what the last call on q returned
    zret,   \* what the last call on z returned
    S,      \* the abstract sequence the calls describe
    aret,   \* what the last call returns on the abstract sequence
    npush,  \* number of PushFront/PushBack calls
    npop,   \* number of PopFront/PopBack calls that returned found = true
    phase,  \* position of the calling program
    outs,   \* what a script recorded: the (value, found) pairs of its pops, or its resizes
    snap    \* the queue saved by a script before its first call

vars == <<q, z, pre, zpre, ret, zret, S, aret, npush, npop, phase, outs, snap>>

\* ------------------------------------------------------- integers, slices
Min(a, b) == IF a < b THEN a ELSE b

RECURSIVE AndNat(_, _)
AndNat(a, b) ==
    IF a = 0 \/ b = 0 THEN 0
    ELSE (a % 2) * (b % 2) + 2 * AndNat(a \div 2, b \div 2)

\* a & b on two's complement integers, for a, b >= -1 (-1 is all ones)
And(a, b) ==
    IF a = -1 THEN b
    ELSE IF b = -1 THEN a
    ELSE AndNat(a, b)

Empty == [Value |-> Zero, ValueSet |-> FALSE]

entry(v) == [Value |-> v, ValueSet |-> TRUE]

Nil == [i \in {} |-> Empty]

make(size) == [i \in 0 .. (size - 1) |-> Empty]

len(rep) == Cardinality(DOMAIN rep)

\* rep[lo:hi] as a sequence; the caller checks 0 <= lo <= hi <= len(rep)
Slice(rep, lo, hi) == [i \in 1 .. (hi - lo) |-> rep[lo + i - 1]]

\* dst after copy(dst[off:], src): Min(len(dst) - off, len(src)) elements move
copy(dst, off, src) ==
    [i \in DOMAIN dst |->
        IF i >= off /\ i - off < Len(src) THEN src[i - off + 1] ELSE dst[i]]

Panicked(d) == [d EXCEPT !.panic = TRUE]

\* ------------------------------------------------------------- the queue
ZeroQueue == [rep |-> Nil, front |-> 0, back |-> 0, length |-> 0, panic |-> FALSE]

\* Init that leaves the cursors where they were
Init_KeepCursors(d) == [d EXCEPT !.rep = make(1), !.length = 0]

Init(d) == [d EXCEPT !.rep = make(1), !.front = 0, !.back = 0, !.length = 0]

New == Init(ZeroQueue)

\* lazyInit that never initializes
lazyInit_Never(d) == d

lazyInit(d) == IF d.rep = Nil THEN Init(d) ELSE d

QueueLen(d) == d.length

empty(d) == d.length = 0

\* full that answers one element early
full_Early(d) == d.length + 1 >= len(d.rep)

full(d) == d.length = len(d.rep)

\* sparse with the threshold at half the capacity
sparse_Half(d) == 1 < d.length /\ d.length < len(d.rep) \div 2

\* sparse without the lower bound on length
sparse_NoFloor(d) == d.length < len(d.rep) \div 4

\* sparse with the threshold at half the capacity, inclusive
sparse_AtHalf(d) == 1 < d.length /\ d.length <= len(d.rep) \div 2

sparse(d) == 1 < d.length /\ d.length < len(d.rep) \div 4

\* resize that copies rep[0:length] when the window does not wrap
resize_NoFront(d, size) ==
    LET adjusted == make(size) IN
    IF d.front < d.back
    THEN [d EXCEPT !.rep = copy(adjusted, 0, Slice(d.rep, 0, d.length)),
                   !.front = 0,
                   !.back = d.length]
    ELSE LET head == Slice(d.rep, d.front, len(d.rep))
             nn == Min(size, Len(head))
         IN [d EXCEPT !.rep = copy(copy(adjusted, 0, head), nn,
                                   Slice(d.rep, 0, d.back)),
                      !.front = 0,
                      !.back = d.length]

\* resize that copies rep[:back] before rep[front:] when the window wraps
resize_Swapped(d, size) ==
    LET adjusted == make(size) IN
    IF d.front < d.back
    THEN [d EXCEPT !.rep = copy(adjusted, 0, Slice(d.rep, d.front, d.back)),
                   !.front = 0,
                   !.back = d.length]
    ELSE LET tail == Slice(d.rep, 0, d.back)
             nn == Min(size, Len(tail))
         IN [d EXCEPT !.rep = copy(copy(adjusted, 0, tail), nn,
                                   Slice(d.rep, d.front, len(d.rep))),
                      !.front = 0,
                      !.back = d.length]

\* resize that leaves back where it was
resize_KeepBack(d, size) ==
    LET adjusted == make(size) IN
    IF d.front < d.back
    THEN [d EXCEPT !.rep = copy(adjusted, 0, Slice(d.rep, d.front, d.back)),
                   !.front = 0]
    ELSE LET head == Slice(d.rep, d.front, len(d.rep))
             nn == Min(size, Len(head))
         IN [d EXCEPT !.rep = copy(copy(adjusted, 0, head), nn,
                                   Slice(d.rep, 0, d.back)),
                      !.front = 0]

resize(d, size) ==
    LET adjusted == make(size) IN
    IF d.front < d.back
    THEN IF d.front < 0 \/ d.back > len(d.rep)
         THEN Panicked(d)
         ELSE [d EXCEPT !.rep = copy(adjusted, 0, Slice(d.rep, d.front, d.back)),
                        !.front = 0,
                        !.back = d.length]
    ELSE IF d.front < 0 \/ d.front > len(d.rep) \/ d.back < 0 \/ d.back > len(d.rep)
         THEN Panicked(d)
         ELSE LET head == Slice(d.rep, d.front, len(d.rep))
                  nn == Min(size, Len(head))
              IN [d EXCEPT !.rep = copy(copy(adjusted, 0, head), nn,
                                        Slice(d.rep, 0, d.back)),
                           !.front = 0,
                           !.back = d.length]

\* lazyGrow that adds one slot instead of doubling
lazyGrow_AddOne(d) == IF full(d) THEN resize(d, len(d.rep) + 1) ELSE d

\* lazyGrow that never grows
lazyGrow_Never(d) == d

lazyGrow(d) == IF full(d) THEN resize(d, len(d.rep) * 2) ELSE d

\* lazyShrink that never shrinks
lazyShrink_Never(d) == d

lazyShrink(d) == IF sparse(d) THEN resize(d, len(d.rep) \div 2) ELSE d

inc(d, i) == And(i + 1, len(d.rep) - 1)

dec(d, i) == And(i - 1, len(d.rep) - 1)

\* fmt.Sprintf("%v", v) for a non-negative int: its decimal digits
Digits == <<"0", "1", "2", "3", "4", "5", "6", "7", "8", "9">>

RECURSIVE Sprintf(_)
Sprintf(v) ==
    IF v < 10 THEN <<Digits[v + 1]>>
    ELSE Sprintf(v \div 10) \o <<Digits[(v % 10) + 1]>>

\* the bytes written by the loop of String from iteration i at slot j;
\* "!" stands for the loop stopped by an index out of range
RECURSIVE StringLoop(_, _, _)
StringLoop(d, i, j) ==
    IF i >= d.length THEN <<>>
    ELSE IF j \notin DOMAIN d.rep THEN <<"!">>
    ELSE Sprintf(d.rep[j].Value)
            \o (IF i < d.length - 1 THEN <<" ">> ELSE <<>>)
            \o StringLoop(d, i + 1, inc(d, j))

String(d) ==
    LET body == StringLoop(d, 0, d.front) IN
    IF \E k \in DOMAIN body : body[k] = "!"
    THEN [s |-> <<>>, panic |-> TRUE]
    ELSE [s |-> <<"[">> \o body \o <<"]">>, panic |-> FALSE]

\* Front that takes a zero value for an empty slot
Front_Sentinel(d) ==
    IF empty(d) \/ d.front \notin DOMAIN d.rep
    THEN [v |-> Zero, ok |-> FALSE, panic |-> FALSE]
    ELSE [v |-> d.rep[d.front].Value, ok |-> d.rep[d.front].Value # Zero, panic |-> FALSE]

Front(d) ==
    IF empty(d) THEN [v |-> Zero, ok |-> FALSE, panic |-> FALSE]
    ELSE IF d.front \notin DOMAIN d.rep THEN [v |-> Zero, ok |-> FALSE, panic |-> TRUE]
    ELSE [v |-> d.rep[d.front].Value, ok |-> TRUE, panic |-> FALSE]

\* Back without the test for an empty queue
Back_NoEmptyCheck(d) ==
    IF dec(d, d.back) \notin DOMAIN d.rep THEN [v |-> Zero, ok |-> FALSE, panic |-> TRUE]
    ELSE [v |-> d.rep[dec(d, d.back)].Value, ok |-> TRUE, panic |-> FALSE]

Back(d) ==
    IF empty(d) THEN [v |-> Zero, ok |-> FALSE, panic |-> FALSE]
    ELSE IF dec(d, d.back) \notin DOMAIN d.rep THEN [v |-> Zero, ok |-> FALSE, panic |-> TRUE]
    ELSE [v |-> d.rep[dec(d, d.back)].Value, ok |-> TRUE, panic |-> FALSE]

\* PushFront that stores at front before decrementing it
PushFront_StoreFirst(d, v) ==
    LET d1 == lazyGrow(lazyInit(d)) IN
    IF d1.panic \/ d1.front \notin DOMAIN d1.rep THEN Panicked(d1)
    ELSE [d1 EXCEPT !.rep[d1.front] = entry(v),
                    !.front = dec(d1, d1.front),
                    !.length = @ + 1]

PushFront(d, v) ==
    LET d1 == lazyGrow(lazyInit(d)) IN
    IF d1.panic THEN d1
    ELSE LET f == dec(d1, d1.front) IN
         IF f \notin DOMAIN d1.rep THEN Panicked([d1 EXCEPT !.front = f])
         ELSE [d1 EXCEPT !.front = f, !.rep[f] = entry(v), !.length = @ + 1]

PushBack(d, v) ==
    LET d1 == lazyGrow(lazyInit(d)) IN
    IF d1.panic THEN d1
    ELSE IF d1.back \notin DOMAIN d1.rep THEN Panicked(d1)
    ELSE [d1 EXCEPT !.rep[d1.back] = entry(v),
                    !.back = inc(d1, d1.back),
                    !.length = @ + 1]

\* PopFront without the test for an empty queue
PopFront_NoEmptyCheck(d) ==
    IF d.front \notin DOMAIN d.rep THEN [d |-> Panicked(d), v |-> Zero, ok |-> FALSE]
    ELSE LET v == d.rep[d.front]
             d1 == [d EXCEPT !.rep[d.front] = Empty,
                             !.front = inc(d, d.front),
                             !.length = @ - 1]
             d2 == lazyShrink(d1)
         IN [d |-> d2, v |-> v.Value, ok |-> ~d2.panic]

\* PopFront that leaves the value in the slot it vacates
PopFront_NoClear(d) ==
    IF empty(d) THEN [d |-> d, v |-> Zero, ok |-> FALSE]
    ELSE IF d.front \notin DOMAIN d.rep THEN [d |-> Panicked(d), v |-> Zero, ok |-> FALSE]
    ELSE LET v == d.rep[d.front]
             d1 == [d EXCEPT !.front = inc(d, d.front), !.length = @ - 1]
             d2 == lazyShrink(d1)
         IN [d |-> d2, v |-> v.Value, ok |-> ~d2.panic]

PopFront(d) ==
    IF empty(d) THEN [d |-> d, v |-> Zero, ok |-> FALSE]
    ELSE IF d.front \notin DOMAIN d.rep THEN [d |-> Panicked(d), v |-> Zero, ok |-> FALSE]
    ELSE LET v == d.rep[d.front]
             d1 == [d EXCEPT !.rep[d.front] = Empty,
                             !.front = inc(d, d.front),
                             !.length = @ - 1]
             d2 == lazyShrink(d1)
         IN [d |-> d2, v |-> v.Value, ok |-> ~d2.panic]

\* PopBack that leaves the value in the slot it vacates
PopBack_NoClear(d) ==
    IF empty(d) THEN [d |-> d, v |-> Zero, ok |-> FALSE]
    ELSE LET b == dec(d, d.back) IN
         IF b \notin DOMAIN d.rep
         THEN [d |-> Panicked([d EXCEPT !.back = b]), v |-> Zero, ok |-> FALSE]
         ELSE LET v == d.rep[b]
                  d1 == [d EXCEPT !.back = b, !.length = @ - 1]
                  d2 == lazyShrink(d1)
              IN [d |-> d2, v |-> v.Value, ok |-> ~d2.panic]

PopBack(d) ==
    IF empty(d) THEN [d |-> d, v |-> Zero, ok |-> FALSE]
    ELSE LET b == dec(d, d.back) IN
         IF b \notin DOMAIN d.rep
         THEN [d |-> Panicked([d EXCEPT !.back = b]), v |-> Zero, ok |-> FALSE]
         ELSE LET v == d.rep[b]
                  d1 == [d EXCEPT !.back = b, !.rep[b] = Empty, !.length = @ - 1]
                  d2 == lazyShrink(d1)
              IN [d |-> d2, v |-> v.Value, ok |-> ~d2.panic]

\* ------------------------------------------------- the abstract sequence
\* the slots rep[front], rep[inc(front)], ... read for length steps
RECURSIVE WindowFrom(_, _, _)
WindowFrom(d, i, j) ==
    IF i >= d.length \/ j \notin DOMAIN d.rep THEN <<>>
    ELSE <<d.rep[j].Value>> \o WindowFrom(d, i + 1, inc(d, j))

Window(d) == WindowFrom(d, 0, d.front)

RECURSIVE Join(_)
Join(s) ==
    IF s = <<>> THEN <<>>
    ELSE IF Len(s) = 1 THEN Sprintf(s[1])
    ELSE Sprintf(s[1]) \o <<" ">> \o Join(Tail(s))

\* a sequence rendered front to back, space-separated, bracketed
Render(s) == <<"[">> \o Join(s) \o <<"]">>

Last(s) == s[Len(s)]

ButLast(s) == SubSeq(s, 1, Len(s) - 1)

\* ------------------------------------------------------ results of calls
Result(op, arg, v, ok, n, str, panic) ==
    [op |-> op, arg |-> arg, v |-> v, ok |-> ok, n |-> n, s |-> str, panic |-> panic]

NoResult(op, arg, panic) == Result(op, arg, Zero, FALSE, 0, <<>>, panic)

Found(op, r) == Result(op, Zero, r.v, r.ok, 0, <<>>, r.panic)

Popped(op, r) == Result(op, Zero, r.v, r.ok, 0, <<>>, r.d.panic)

Absent(op) == Result(op, Zero, Zero, FALSE, 0, <<>>, FALSE)

Present(op, v) == Result(op, Zero, v, TRUE, 0, <<>>, FALSE)

Counted(op, n) == Result(op, Zero, Zero, FALSE, n, <<>>, FALSE)

Rendered(op, r) == Result(op, Zero, Zero, FALSE, 0, r.s, r.panic)

\* a panic ends the calling program
Running == ~q.panic /\ ~z.panic /\ ~ret.panic /\ ~zret.panic

\* --------------------------------------------- one call on q and on S alike
PushFrontStep(v) ==
    LET d == PushFront(q, v) IN
    /\ Running
    /\ pre' = q
    /\ q' = d
    /\ ret' = NoResult("PushFront", v, d.panic)
    /\ S' = <<v>> \o S
    /\ aret' = NoResult("PushFront", v, FALSE)

PushBackStep(v) ==
    LET d == PushBack(q, v) IN
    /\ Running
    /\ pre' = q
    /\ q' = d
    /\ ret' = NoResult("PushBack", v, d.panic)
    /\ S' = S \o <<v>>
    /\ aret' = NoResult("PushBack", v, FALSE)

PopFrontStep ==
    LET r == PopFront(q) IN
    /\ Running
    /\ pre' = q
    /\ q' = r.d
    /\ ret' = Popped("PopFront", r)
    /\ S' = IF S = <<>> THEN S ELSE Tail(S)
    /\ aret' = IF S = <<>> THEN Absent("PopFront") ELSE Present("PopFront", Head(S))

PopBackStep ==
    LET r == PopBack(q) IN
    /\ Running
    /\ pre' = q
    /\ q' = r.d
    /\ ret' = Popped("PopBack", r)
    /\ S' = IF S = <<>> THEN S ELSE ButLast(S)
    /\ aret' = IF S = <<>> THEN Absent("PopBack") ELSE Present("PopBack", Last(S))

FrontStep ==
    /\ Running
    /\ pre' = q
    /\ ret' = Found("Front", Front(q))
    /\ aret' = IF S = <<>> THEN Absent("Front") ELSE Present("Front", Head(S))
    /\ UNCHANGED <<q, S>>

BackStep ==
    /\ Running
    /\ pre' = q
    /\ ret' = Found("Back", Back(q))
    /\ aret' = IF S = <<>> THEN Absent("Back") ELSE Present("Back", Last(S))
    /\ UNCHANGED <<q, S>>

LenStep ==
    /\ Running
    /\ pre' = q
    /\ ret' = Counted("Len", QueueLen(q))
    /\ aret' = Counted("Len", Len(S))
    /\ UNCHANGED <<q, S>>

StringStep ==
    /\ Running
    /\ pre' = q
    /\ ret' = Rendered("String", String(q))
    /\ aret' = Rendered("String", [s |-> Render(S), panic |-> FALSE])
    /\ UNCHANGED <<q, S>>

InitStep ==
    /\ Running
    /\ pre' = q
    /\ q' = Init(q)
    /\ ret' = NoResult("Init", Zero, FALSE)
    /\ S' = <<>>
    /\ aret' = NoResult("Init", Zero, FALSE)

\* ------------------------------------------------------ the same call on z
ZPushFrontStep(v) ==
    LET d == PushFront(z, v) IN
    zpre' = z /\ z' = d /\ zret' = NoResult("PushFront", v, d.panic)

ZPushBackStep(v) ==
    LET d == PushBack(z, v) IN
    zpre' = z /\ z' = d /\ zret' = NoResult("PushBack", v, d.panic)

ZPopFrontStep ==
    LET r == PopFront(z) IN
    zpre' = z /\ z' = r.d /\ zret' = Popped("PopFront", r)

ZPopBackStep ==
    LET r == PopBack(z) IN
    zpre' = z /\ z' = r.d /\ zret' = Popped("PopBack", r)

ZFrontStep == zpre' = z /\ z' = z /\ zret' = Found("Front", Front(z))

ZBackStep == zpre' = z /\ z' = z /\ zret' = Found("Back", Back(z))

ZLenStep == zpre' = z /\ z' = z /\ zret' = Counted("Len", QueueLen(z))

ZStringStep == zpre' = z /\ z' = z /\ zret' = Rendered("String", String(z))

\* ---------------------------------------------------- the free-running caller
\* any sequence of calls on a queue that is New() or a zero value
NoSnap == [d |-> New, v |-> Zero]

StartAt(d, ph) ==
    /\ q = d
    /\ pre = d
    /\ ret = NoResult("New", Zero, FALSE)
    /\ S = <<>>
    /\ aret = NoResult("New", Zero, FALSE)
    /\ z = ZeroQueue
    /\ zpre = ZeroQueue
    /\ zret = NoResult("New", Zero, FALSE)
    /\ npush = 0
    /\ npop = 0
    /\ phase = ph
    /\ outs = <<>>
    /\ snap = NoSnap

Start == \E d \in {New, ZeroQueue} : StartAt(d, "free")

twin == <<z, zpre, zret>>

script == <<npush, npop, phase, outs, snap>>

DoPushFront ==
    \E v \in Values :
        q.length < MaxLen /\ PushFrontStep(v) /\ UNCHANGED <<twin, script>>

DoPushBack ==
    \E v \in Values :
        q.length < MaxLen /\ PushBackStep(v) /\ UNCHANGED <<twin, script>>

DoPopFront == PopFrontStep /\ UNCHANGED <<twin, script>>

DoPopBack == PopBackStep /\ UNCHANGED <<twin, script>>

DoFront == FrontStep /\ UNCHANGED <<twin, script>>

DoBack == BackStep /\ UNCHANGED <<twin, script>>

DoLen == LenStep /\ UNCHANGED <<twin, script>>

DoString == StringStep /\ UNCHANGED <<twin, script>>

DoInit == InitStep /\ UNCHANGED <<twin, script>>

Next ==
    \/ DoPushFront
    \/ DoPushBack
    \/ DoPopFront
    \/ DoPopBack
    \/ DoFront
    \/ DoBack
    \/ DoLen
    \/ DoString
    \/ DoInit

Spec == Start /\ [][Next]_vars

\* ------------------------------------------------------ the counting caller
\* pushes and pops on a queue that started empty, counting the pushes and
\* the pops that returned found = true
CountPushFront ==
    \E v \in Values :
        /\ npush < MaxPushes
        /\ PushFrontStep(v)
        /\ npush' = npush + 1
        /\ UNCHANGED <<twin, npop, phase, outs, snap>>

CountPushBack ==
    \E v \in Values :
        /\ npush < MaxPushes
        /\ PushBackStep(v)
        /\ npush' = npush + 1
        /\ UNCHANGED <<twin, npop, phase, outs, snap>>

CountPopFront ==
    /\ PopFrontStep
    /\ npop' = IF ret'.ok THEN npop + 1 ELSE npop
    /\ UNCHANGED <<twin, npush, phase, outs, snap>>

CountPopBack ==
    /\ PopBackStep
    /\ npop' = IF ret'.ok THEN npop + 1 ELSE npop
    /\ UNCHANGED <<twin, npush, phase, outs, snap>>

CountLen == LenStep /\ UNCHANGED <<twin, script>>

NextCount ==
    \/ CountPushFront
    \/ CountPushBack
    \/ CountPopFront
    \/ CountPopBack
    \/ CountLen

SpecCount == Start /\ [][NextCount]_vars

\* --------------------------------------------------- the round-trip scripts
\* N pushes of the distinct values 0, 1, ..., N-1 at one end (PushBack in the
\* script "fifo", PushFront in the script "lifo"), then N calls of PopFront
StartRoundTrip == \E ph \in {"fifo.push", "lifo.push"} : StartAt(New, ph)

RTPushBack ==
    /\ phase = "fifo.push"
    /\ npush < MaxN
    /\ PushBackStep(npush)
    /\ npush' = npush + 1
    /\ UNCHANGED <<twin, npop, phase, outs, snap>>

RTPushFront ==
    /\ phase = "lifo.push"
    /\ npush < MaxN
    /\ PushFrontStep(npush)
    /\ npush' = npush + 1
    /\ UNCHANGED <<twin, npop, phase, outs, snap>>

RTStartPop ==
    /\ phase \in {"fifo.push", "lifo.push"}
    /\ phase' = IF phase = "fifo.push" THEN "fifo.pop" ELSE "lifo.pop"
    /\ UNCHANGED <<q, pre, ret, S, aret, twin, npush, npop, outs, snap>>

RTPopFront ==
    /\ phase \in {"fifo.pop", "lifo.pop"}
    /\ npop < npush
    /\ PopFrontStep
    /\ npop' = npop + 1
    /\ outs' = Append(outs, <<ret'.v, ret'.ok>>)
    /\ UNCHANGED <<twin, npush, phase, snap>>

NextRoundTrip ==
    \/ RTPushBack
    \/ RTPushFront
    \/ RTStartPop
    \/ RTPopFront

SpecRoundTrip == StartRoundTrip /\ [][NextRoundTrip]_vars

\* ------------------------------------------------------- the twin callers
\* the same calls on q, returned by New(), and on z, a zero value
StartTwin == StartAt(New, "free")

TwinPushFront ==
    \E v \in Values :
        /\ q.length < MaxTwin
        /\ PushFrontStep(v)
        /\ ZPushFrontStep(v)
        /\ UNCHANGED script

TwinPushBack ==
    \E v \in Values :
        /\ q.length < MaxTwin
        /\ PushBackStep(v)
        /\ ZPushBackStep(v)
        /\ UNCHANGED script

TwinPopFront == PopFrontStep /\ ZPopFrontStep /\ UNCHANGED script

TwinPopBack == PopBackStep /\ ZPopBackStep /\ UNCHANGED script

TwinFront == FrontStep /\ ZFrontStep /\ UNCHANGED script

TwinBack == BackStep /\ ZBackStep /\ UNCHANGED script

TwinLen == LenStep /\ ZLenStep /\ UNCHANGED script

TwinString == StringStep /\ ZStringStep /\ UNCHANGED script

NextTwin ==
    \/ TwinPushFront
    \/ TwinPushBack
    \/ TwinPopFront
    \/ TwinPopBack
    \/ TwinFront
    \/ TwinBack
    \/ TwinLen
    \/ TwinString

SpecTwin == StartTwin /\ [][NextTwin]_vars

\* ---------------------------------------------------- the symmetry script
\* pushes and pops of the value 1 bring the queue to any capacity and cursor
\* position; once it is empty the script saves it, calls PushFront(v) and
\* then PopFront
StartSym == StartAt(New, "free")

SymRoamPushFront ==
    /\ phase = "free"
    /\ q.length < MaxLen
    /\ PushFrontStep(1)
    /\ UNCHANGED <<twin, script>>

SymRoamPushBack ==
    /\ phase = "free"
    /\ q.length < MaxLen
    /\ PushBackStep(1)
    /\ UNCHANGED <<twin, script>>

SymRoamPopFront == phase = "free" /\ PopFrontStep /\ UNCHANGED <<twin, script>>

SymRoamPopBack == phase = "free" /\ PopBackStep /\ UNCHANGED <<twin, script>>

SymPushFront ==
    \E v \in Values :
        /\ phase = "free"
        /\ q.length = 0
        /\ PushFrontStep(v)
        /\ snap' = [d |-> q, v |-> v]
        /\ phase' = "pushed"
        /\ UNCHANGED <<twin, npush, npop, outs>>

SymPopFront ==
    /\ phase = "pushed"
    /\ PopFrontStep
    /\ phase' = "popped"
    /\ UNCHANGED <<twin, npush, npop, outs, snap>>

SymResume ==
    /\ phase = "popped"
    /\ phase' = "free"
    /\ snap' = NoSnap
    /\ UNCHANGED <<q, pre, ret, S, aret, twin, npush, npop, outs>>

NextSym ==
    \/ SymRoamPushFront
    \/ SymRoamPushBack
    \/ SymRoamPopFront
    \/ SymRoamPopBack
    \/ SymPushFront
    \/ SymPopFront
    \/ SymResume

SpecSym == StartSym /\ [][NextSym]_vars

\* ------------------------------------------------------- the roaming caller
\* pushes and pops of the value 1, and Init, on a queue that is New() or a
\* zero value: every capacity, cursor position and length up to MaxRoam
RoamPushFront ==
    /\ phase = "free"
    /\ q.length < MaxRoam
    /\ PushFrontStep(1)
    /\ UNCHANGED <<twin, script>>

RoamPushBack ==
    /\ phase = "free"
    /\ q.length < MaxRoam
    /\ PushBackStep(1)
    /\ UNCHANGED <<twin, script>>

RoamPopFront == phase = "free" /\ PopFrontStep /\ UNCHANGED <<twin, script>>

RoamPopBack == phase = "free" /\ PopBackStep /\ UNCHANGED <<twin, script>>

RoamInit == phase = "free" /\ InitStep /\ UNCHANGED <<twin, script>>

NextRoam ==
    \/ RoamPushFront
    \/ RoamPushBack
    \/ RoamPopFront
    \/ RoamPopBack
    \/ RoamInit

SpecRoam == Start /\ [][NextRoam]_vars

\* --------------------------------------------------------- the burst script
\* pushes and pops of the value 1 bring the queue to any capacity and cursor
\* position; once it is empty the script saves it and pushes the distinct
\* values 0, 1, ... at either end, capacity + 1 times, recording every
\* resize as (number of the push, capacity before, capacity after)
StartBurst == StartAt(New, "free")

ResizeLog(n) ==
    IF len(q'.rep) # len(q.rep)
    THEN Append(outs, <<n, len(q.rep), len(q'.rep)>>)
    ELSE outs

BurstStart ==
    /\ phase = "free"
    /\ q.length = 0
    /\ phase' = "burst"
    /\ snap' = [d |-> q, v |-> Zero]
    /\ UNCHANGED <<q, pre, ret, S, aret, twin, npush, npop, outs>>

BurstPushFront ==
    /\ phase = "burst"
    /\ npush <= len(snap.d.rep)
    /\ PushFrontStep(npush)
    /\ npush' = npush + 1
    /\ outs' = ResizeLog(npush + 1)
    /\ UNCHANGED <<twin, npop, phase, snap>>

BurstPushBack ==
    /\ phase = "burst"
    /\ npush <= len(snap.d.rep)
    /\ PushBackStep(npush)
    /\ npush' = npush + 1
    /\ outs' = ResizeLog(npush + 1)
    /\ UNCHANGED <<twin, npop, phase, snap>>

NextBurst ==
    \/ SymRoamPushFront
    \/ SymRoamPushBack
    \/ SymRoamPopFront
    \/ SymRoamPopBack
    \/ BurstStart
    \/ BurstPushFront
    \/ BurstPushBack

SpecBurst == StartBurst /\ [][NextBurst]_vars

\* --------------------------------------------------- the alternating script
\* the roaming caller brings the queue to any state; from there the script
\* calls one push, one pop, one push, ... or one pop, one push, one pop, ...
\* at either end, without end, recording every resize as (call, capacity
\* before, capacity after)
StartAlt == StartAt(New, "free")

AltLog ==
    IF len(q'.rep) # len(q.rep)
    THEN Append(outs, <<ret'.op, len(q.rep), len(q'.rep)>>)
    ELSE outs

AltStart ==
    /\ phase = "free"
    /\ phase' \in {"alt.push", "alt.pop"}
    /\ UNCHANGED <<q, pre, ret, S, aret, twin, npush, npop, outs, snap>>

AltPushFront ==
    /\ phase = "alt.push"
    /\ PushFrontStep(1)
    /\ outs' = AltLog
    /\ phase' = "alt.pop"
    /\ UNCHANGED <<twin, npush, npop, snap>>

AltPushBack ==
    /\ phase = "alt.push"
    /\ PushBackStep(1)
    /\ outs' = AltLog
    /\ phase' = "alt.pop"
    /\ UNCHANGED <<twin, npush, npop, snap>>

AltPopFront ==
    /\ phase = "alt.pop"
    /\ PopFrontStep
    /\ outs' = AltLog
    /\ phase' = "alt.push"
    /\ UNCHANGED <<twin, npush, npop, snap>>

AltPopBack ==
    /\ phase = "alt.pop"
    /\ PopBackStep
    /\ outs' = AltLog
    /\ phase' = "alt.push"
    /\ UNCHANGED <<twin, npush, npop, snap>>

NextAlt ==
    \/ RoamPushFront
    \/ RoamPushBack
    \/ RoamPopFront
    \/ RoamPopBack
    \/ RoamInit
    \/ AltStart
    \/ AltPushFront
    \/ AltPushBack
    \/ AltPopFront
    \/ AltPopBack

SpecAlt == StartAlt /\ [][NextAlt]_vars

\* ------------------------------------------------------------ properties
Ends == {"Front", "Back", "PopFront", "PopBack"}

RECURSIVE IsPowerOfTwo(_)
IsPowerOfTwo(k) ==
    IF k <= 1 THEN k = 1
    ELSE k % 2 = 0 /\ IsPowerOfTwo(k \div 2)

\* C1: the queue refines the abstract sequence S: after every call the slots
\* rep[front], rep[inc(front)], ... (length steps) read in that order are S,
\* the call returned what it returns on S (PushFront prepends, PushBack
\* appends, Front/PopFront give the first element, Back/PopBack the last,
\* Len gives |S|, String lists S front to back), and no call panicked.
C1_Refinement ==
    /\ ~q.panic
    /\ ~ret.panic
    /\ Window(q) = S
    /\ QueueLen(q) = Len(S)
    /\ ret = aret

\* a pop has just shrunk a window that wrapped around the end of the store
C1_Witness ==
    /\ ret.op = "PopBack"
    /\ ret.ok
    /\ pre.front > pre.back
    /\ len(pre.rep) = 16
    /\ len(q.rep) = 8
    /\ Window(q) = S

\* C5: on a queue of length 0, of any capacity and cursor position or with a
\* nil rep, Front, Back, PopFront and PopBack return found = false, do not
\* panic and leave rep, front, back and length as they were.
C5_EmptyCalls ==
    (ret.op \in Ends /\ pre.length = 0) =>
        /\ ~ret.ok
        /\ ret.v = Zero
        /\ ~ret.panic
        /\ ~q.panic
        /\ q.rep = pre.rep
        /\ q.front = pre.front
        /\ q.back = pre.back
        /\ q.length = pre.length

\* a pop on an emptied queue whose capacity grew and whose cursors moved
C5_Witness ==
    /\ ret.op = "PopBack"
    /\ pre.length = 0
    /\ len(pre.rep) > 1
    /\ pre.front # 0
    /\ ~ret.ok

\* a pop on a zero-value queue, whose rep is nil
C5_WitnessNil ==
    /\ ret.op = "PopFront"
    /\ pre.rep = Nil
    /\ q.rep = Nil
    /\ ~ret.ok

\* C6: Front, Back, PopFront and PopBack return found = true exactly when
\* length > 0 at the call; when the element at that end is the zero value
\* they return (zero, true), which differs from the (zero, false) of an
\* empty queue.
C6_FoundIffNonEmpty ==
    ret.op \in Ends =>
        /\ ret.ok <=> pre.length > 0
        /\ (pre.length > 0 /\ aret.v = Zero) => (ret.v = Zero /\ ret.ok)
        /\ pre.length = 0 => (ret.v = Zero /\ ~ret.ok)

\* a stored zero value is read back as (zero, true)
C6_Witness ==
    /\ ret.op \in Ends
    /\ pre.length > 0
    /\ aret.v = Zero
    /\ ret.v = Zero
    /\ ret.ok

\* C8: Init on a queue in any state leaves capacity 1, front = back =
\* length = 0 and the one slot empty, which is the state of New(), so that
\* every later call behaves as on a queue returned by New().
C8_InitResets ==
    ret.op = "Init" =>
        /\ len(q.rep) = 1
        /\ q.rep[0] = Empty
        /\ q.front = 0
        /\ q.back = 0
        /\ q.length = 0
        /\ q = New
        /\ Window(q) = <<>>

\* Init has just cleared a queue that held elements in a grown store
C8_Witness ==
    /\ ret.op = "Init"
    /\ pre.length > 1
    /\ len(pre.rep) > 2
    /\ pre.front # 0
    /\ q = New

\* C10: once the queue is initialized, len(rep) is a power of two and at
\* least 1 after every call, and inc and dec are the successor and the
\* predecessor modulo len(rep).
C10_PowerOfTwo ==
    q.rep # Nil =>
        /\ len(q.rep) >= 1
        /\ IsPowerOfTwo(len(q.rep))
        /\ \A i \in 0 .. (len(q.rep) - 1) :
            /\ inc(q, i) = (i + 1) % len(q.rep)
            /\ dec(q, i) = (i - 1) % len(q.rep)

\* the capacity has grown to 16 and has just been halved
C10_Witness ==
    /\ len(pre.rep) = 16
    /\ len(q.rep) = 8
    /\ IsPowerOfTwo(len(q.rep))
    /\ dec(q, 0) = 7

\* C2: FIFO round trip: after N PushBack calls with the distinct values
\* v1..vN on an empty queue, the N PopFront calls return (v1, true), ...,
\* (vN, true) in that order and leave Len() = 0.
C2_Fifo ==
    phase = "fifo.pop" =>
        /\ Len(outs) = npop
        /\ \A i \in 1 .. npop : outs[i] = <<i - 1, TRUE>>
        /\ npop = npush => QueueLen(q) = 0

\* the eleventh value came back after ten pushes grew and the pops shrank the store
C2_Witness ==
    /\ phase = "fifo.pop"
    /\ npush >= 10
    /\ npop = npush
    /\ outs[npop] = <<npush - 1, TRUE>>
    /\ QueueLen(q) = 0

\* C3: LIFO round trip: after N PushFront calls with the distinct values
\* v1..vN on an empty queue, the N PopFront calls return (vN, true), ...,
\* (v1, true), the reverse of the push order, and leave Len() = 0.
C3_Lifo ==
    phase = "lifo.pop" =>
        /\ Len(outs) = npop
        /\ \A i \in 1 .. npop : outs[i] = <<npush - i, TRUE>>
        /\ npop = npush => QueueLen(q) = 0

\* the first value pushed came back last, after grows and shrinks
C3_Witness ==
    /\ phase = "lifo.pop"
    /\ npush >= 10
    /\ npop = npush
    /\ outs[npop] = <<0, TRUE>>
    /\ outs[1] = <<npush - 1, TRUE>>
    /\ QueueLen(q) = 0

\* C4: on a queue that started empty, Len() is the number of pushes minus the
\* number of pops that returned found = true; a pop on an empty queue leaves
\* length as it was, and length is never negative.
C4_LenCounts ==
    /\ QueueLen(q) = npush - npop
    /\ QueueLen(q) >= 0
    /\ ret.op = "Len" => ret.n = npush - npop
    /\ (ret.op \in {"PopFront", "PopBack"} /\ ~ret.ok) =>
            (pre.length = 0 /\ q.length = pre.length)

\* a pop found the queue empty after pushes and as many pops
C4_Witness ==
    /\ ret.op = "PopFront"
    /\ ~ret.ok
    /\ npush >= 3
    /\ npop = npush
    /\ QueueLen(q) = 0

\* C7: a zero-value queue given the calls given to a queue returned by New()
\* returns the same values and found flags, the same Len and the same
\* String, and never panics.
C7_ZeroValueAgrees ==
    /\ zret = ret
    /\ ~z.panic
    /\ ~zret.panic
    /\ QueueLen(z) = QueueLen(q)
    /\ String(z) = String(q)

\* the first push on the zero-value queue initialized it
C7_Witness ==
    /\ zpre.rep = Nil
    /\ zret.op = "PushFront"
    /\ z.rep # Nil
    /\ z = q

\* the zero-value queue answered calls while its rep was still nil
C7_WitnessNil ==
    /\ z.rep = Nil
    /\ zret.op = "PopBack"
    /\ zret = ret

\* C9: on an initialized queue of length 0, PushFront(v) followed by
\* PopFront returns (v, true) and leaves length 0, the capacity, front and
\* back of before the push, and every slot empty.
C9_PushPopFront ==
    phase = "popped" =>
        /\ ret.v = snap.v
        /\ ret.ok
        /\ q.length = 0
        /\ len(q.rep) = len(snap.d.rep)
        /\ q.front = snap.d.front
        /\ q.back = snap.d.back
        /\ \A i \in DOMAIN q.rep : q.rep[i] = Empty
        /\ ~q.panic

\* the pair ran on an emptied queue of capacity 8 whose cursors had moved
C9_Witness ==
    /\ phase = "popped"
    /\ len(snap.d.rep) = 8
    /\ snap.d.front # 0
    /\ q = snap.d
    /\ ret.ok

\* slot i lies in the occupied window: it is reached from front in fewer
\* than length forward steps modulo the capacity
InWindow(d, i) ==
    \E k \in 0 .. (d.length - 1) : (d.front + k) % len(d.rep) = i

\* C11: in every state of an initialized queue of capacity C, after every
\* push, pop, Init and resize: 0 <= front < C, 0 <= back < C,
\* 0 <= length <= C and back = (front + length) mod C.
C11_Cursors ==
    q.rep # Nil =>
        /\ 0 <= q.front /\ q.front < len(q.rep)
        /\ 0 <= q.back /\ q.back < len(q.rep)
        /\ 0 <= q.length /\ q.length <= len(q.rep)
        /\ q.back = (q.front + q.length) % len(q.rep)
        /\ ~q.panic

\* a push has just filled a store whose window wraps: back met front
C11_Witness ==
    /\ ret.op \in {"PushFront", "PushBack"}
    /\ len(q.rep) >= 4
    /\ q.length = len(q.rep)
    /\ q.front = q.back
    /\ q.front # 0
    /\ pre.length = q.length - 1

\* C12: a slot of rep has ValueSet = true exactly when it lies in the
\* occupied window, and every slot outside the window is the empty entry
\* (ValueSet = false, zero Value): a pop clears the slot it vacates and a
\* resize leaves no live value outside the window.
C12_SlotsOutsideEmpty ==
    \A i \in DOMAIN q.rep :
        /\ q.rep[i].ValueSet <=> InWindow(q, i)
        /\ ~InWindow(q, i) => q.rep[i] = Empty

\* a pop has just cleared the slot it vacated in a window that wraps
C12_Witness ==
    /\ ret.op = "PopBack"
    /\ ret.ok
    /\ q.length > 0
    /\ q.front > q.back
    /\ pre.rep[q.back].ValueSet
    /\ q.rep[q.back] = Empty

Pushes == {"PushFront", "PushBack"}

Pops == {"PopFront", "PopBack"}

\* the queue PopFront hands to lazyShrink: the front slot cleared, front
\* advanced, length decremented
PopFrontTake(d) ==
    [d EXCEPT !.rep[d.front] = Empty, !.front = inc(d, d.front), !.length = @ - 1]

\* the queue PopBack hands to lazyShrink: back moved back, that slot
\* cleared, length decremented
PopBackTake(d) ==
    [d EXCEPT !.back = dec(d, d.back), !.rep[dec(d, d.back)] = Empty, !.length = @ - 1]

\* the queue the last call handed to lazyGrow or lazyShrink
ResizeArg ==
    IF ret.op \in Pushes THEN lazyInit(pre)
    ELSE IF ret.op = "PopFront" THEN PopFrontTake(pre)
    ELSE PopBackTake(pre)

\* the size the last call asked of resize
ResizeSize ==
    IF ret.op \in Pushes THEN len(ResizeArg.rep) * 2 ELSE len(ResizeArg.rep) \div 2

\* the last call resized the store
Resized ==
    \/ ret.op \in Pushes /\ full(ResizeArg)
    \/ ret.op \in Pops /\ ret.ok /\ sparse(ResizeArg)

\* C13: every resize, to 2C from lazyGrow and to C/2 from lazyShrink, leaves
\* length as it was, sets front = 0 and back = length and puts the elements
\* in the slots 0..length-1 in their front-to-back order, when the old
\* window is contiguous and when it wraps or is full; the call goes on from
\* the resized queue.
C13_ResizeNormalizes ==
    Resized =>
        LET a == ResizeArg
            r == resize(a, ResizeSize)
        IN /\ ~r.panic
           /\ len(r.rep) = ResizeSize
           /\ r.length = a.length
           /\ r.front = 0
           /\ r.back = a.length
           /\ \A k \in 0 .. (a.length - 1) :
                r.rep[k] = a.rep[(a.front + k) % len(a.rep)]
           /\ ret.op \in Pops => q = r
           /\ ret.op = "PushBack" =>
                /\ q.front = 0
                /\ \A k \in 0 .. (a.length - 1) : q.rep[k] = r.rep[k]
           /\ ret.op = "PushFront" =>
                /\ q.back = a.length
                /\ \A k \in 0 .. (a.length - 1) : q.rep[k] = r.rep[k]

\* a push has just doubled a full store whose front = back was not 0
C13_Witness ==
    /\ ret.op = "PushBack"
    /\ Resized
    /\ pre.front = pre.back
    /\ pre.front # 0
    /\ pre.length >= 4
    /\ len(q.rep) = 2 * len(pre.rep)
    /\ \E i, j \in 0 .. (pre.length - 1) : q.rep[i].Value # q.rep[j].Value

\* a pop has just halved a store whose window was contiguous
C13_WitnessShrink ==
    /\ ret.op = "PopFront"
    /\ Resized
    /\ ResizeArg.front < ResizeArg.back
    /\ ResizeArg.front # 0
    /\ 2 * len(q.rep) = len(pre.rep)

\* C16: a PopFront or PopBack that returns found = true, with n the length
\* after the removal and C the capacity before the pop, leaves capacity C/2
\* if 1 < n and n < C/4 and capacity C otherwise, so one pop halves the
\* store at most once; the remaining elements keep their values and order.
C16_ShrinkTrigger ==
    (ret.op \in Pops /\ ret.ok) =>
        LET n == pre.length - 1
            C == len(pre.rep)
        IN /\ q.length = n
           /\ len(q.rep) = IF 1 < n /\ 4 * n < C THEN C \div 2 ELSE C
           /\ ret.op = "PopFront" => Window(q) = Tail(Window(pre))
           /\ ret.op = "PopBack" => Window(q) = ButLast(Window(pre))

\* a pop has just halved the store and the elements left differ in value
C16_Witness ==
    /\ ret.op \in Pops
    /\ ret.ok
    /\ len(pre.rep) = 16
    /\ len(q.rep) = 8
    /\ q.length = 3
    /\ \E i, j \in 1 .. 3 : Window(q)[i] # Window(q)[j]

\* C14: from an empty initialized queue of capacity C, C + 1 consecutive
\* pushes at either end resize exactly once: the first C pushes leave the
\* capacity C, the (C+1)-th doubles it to 2C before inserting, and the
\* elements already stored keep their order through that resize.
C14_OneGrow ==
    phase = "burst" =>
        LET C == len(snap.d.rep) IN
        /\ npush <= C => (outs = <<>> /\ len(q.rep) = C)
        /\ npush = C + 1 =>
            /\ outs = << <<C + 1, C, 2 * C>> >>
            /\ len(q.rep) = 2 * C
            /\ pre.length = C
            /\ ret.op = "PushFront" => Window(q) = <<ret.arg>> \o Window(pre)
            /\ ret.op = "PushBack" => Window(q) = Window(pre) \o <<ret.arg>>
        /\ Window(q) = S

\* nine pushes at both ends of an emptied queue of capacity 8 whose cursors
\* had moved: the ninth doubled the store
C14_Witness ==
    /\ phase = "burst"
    /\ len(snap.d.rep) = 8
    /\ snap.d.front # 0
    /\ npush = 9
    /\ Len(outs) = 1
    /\ len(q.rep) = 16
    /\ S[1] = 8
    /\ S[9] = 7

\* the capacity a push finds once lazyInit has run
CapBeforePush == IF pre.rep = Nil THEN 1 ELSE len(pre.rep)

\* C15 as stated: a push that would make length == C doubles the capacity
\* before inserting, so that length < C holds after every push.
C15_Original ==
    ret.op \in Pushes =>
        /\ pre.length + 1 = CapBeforePush => len(q.rep) = 2 * CapBeforePush
        /\ q.length < len(q.rep)

\* C15 as amended: a push called when length == C, the store being full,
\* doubles the capacity to 2C before inserting and no other push changes
\* the capacity, so that length <= C holds after every push; a push that
\* takes the last free slot leaves length == C.
C15_GrowWhenFull ==
    ret.op \in Pushes =>
        /\ len(q.rep) = IF pre.length = CapBeforePush
                        THEN 2 * CapBeforePush
                        ELSE CapBeforePush
        /\ q.length = pre.length + 1
        /\ q.length <= len(q.rep)

\* a push has just doubled a full store of capacity 4 or more
C15_Witness ==
    /\ ret.op \in Pushes
    /\ pre.length = len(pre.rep)
    /\ len(pre.rep) >= 4
    /\ len(q.rep) = 2 * len(pre.rep)
    /\ q.length = pre.length + 1

\* a push has just taken the last free slot and left the capacity alone
C15_WitnessFull ==
    /\ ret.op \in Pushes
    /\ len(q.rep) >= 4
    /\ len(q.rep) = len(pre.rep)
    /\ q.length = len(q.rep)

\* C17: no pop shrinks the store when the length it leaves is <= 1, the
\* capacity of an initialized queue is never below 1, and after a shrink the
\* capacity is at least length, back = length is an index of the store and
\* the slots 0..length-1 hold the live elements.
C17_ShrinkSafe ==
    /\ q.rep # Nil => len(q.rep) >= 1
    /\ ret.op \in Pops =>
        /\ q.length <= 1 => len(q.rep) = len(pre.rep)
        /\ len(q.rep) < len(pre.rep) =>
            /\ q.length = pre.length - 1
            /\ q.length <= len(q.rep)
            /\ q.back = q.length
            /\ q.back \in DOMAIN q.rep
            /\ \A k \in 0 .. (q.length - 1) : q.rep[k].ValueSet

\* a pop has just halved the store and kept its three elements
C17_Witness ==
    /\ ret.op \in Pops
    /\ 2 * len(q.rep) = len(pre.rep)
    /\ q.length = 3
    /\ q.back = 3
    /\ \A k \in 0 .. 2 : q.rep[k].ValueSet

\* a pop has just left one element in a store of capacity 8 and not shrunk it
C17_WitnessOne ==
    /\ ret.op \in Pops
    /\ ret.ok
    /\ q.length = 1
    /\ len(q.rep) = 8
    /\ len(pre.rep) = 8

Max(a, b) == IF a > b THEN a ELSE b

\* C20: after every call the queue is not sparse and its capacity is at most
\* max(8, 4 * length): if length >= 2 then length >= C/4, and if length <= 1
\* then C <= 8 (a queue emptied by pops keeps a capacity of up to 8).
C20_Hysteresis ==
    /\ ~sparse(q)
    /\ len(q.rep) <= Max(8, 4 * q.length)
    /\ q.length >= 2 => 4 * q.length >= len(q.rep)
    /\ q.length <= 1 => len(q.rep) <= 8

\* a queue that grew to capacity 32 and was emptied by pops keeps capacity 8
C20_Witness ==
    /\ ret.op \in Pops
    /\ ret.ok
    /\ q.length = 0
    /\ len(q.rep) = 8

Alternating == phase \in {"alt.push", "alt.pop"}

\* C18: no thrash: from any reachable state, a strictly alternating sequence
\* of single pushes and single pops, starting with either, at either end and
\* of any length, resizes the store at most once in total; so a pop right
\* after a push that grew the store does not shrink it, and a push right
\* after a pop that shrank it does not grow it.
C18_NoThrash ==
    Alternating =>
        /\ Len(outs) <= 1
        /\ (Len(outs) = 1 /\ len(q.rep) # len(pre.rep)) => outs[1][1] = ret.op

\* the one resize was a grow, and the alternation went on for a pop, a push
\* and a pop without another
C18_Witness ==
    /\ Alternating
    /\ Len(outs) = 1
    /\ outs[1][1] \in Pushes
    /\ outs[1][2] >= 8
    /\ ret.op \in Pops
    /\ ret.ok
    /\ len(q.rep) = len(pre.rep)
    /\ q.length = outs[1][2]

\* the one resize was a shrink, and a push followed without growing
C18_WitnessShrink ==
    /\ Alternating
    /\ Len(outs) = 1
    /\ outs[1][1] \in Pops
    /\ ret.op \in Pushes
    /\ len(q.rep) = len(pre.rep)

\* C19 as stated: the first PushFront, PushBack, PopFront or PopBack on a
\* zero-value queue initializes it, so that after the call its store has
\* capacity >= 1.
C19_Original ==
    (zpre.rep = Nil /\ zret.op \in (Pushes \cup Pops)) =>
        (z.rep # Nil /\ len(z.rep) >= 1)

\* C19 as amended: the first PushFront or PushBack on a zero-value queue
\* initializes it to the state of Init before taking effect, so that after
\* the call its store has capacity >= 1; PopFront and PopBack on a
\* zero-value queue return found = false and leave rep nil.
C19_LazyInitOnPush ==
    zpre.rep = Nil =>
        /\ zret.op \in Pushes =>
            /\ ~z.panic
            /\ z.rep # Nil
            /\ len(z.rep) >= 1
            /\ pre = New
            /\ z = q
        /\ zret.op \in Pops =>
            /\ ~zret.ok
            /\ ~zret.panic
            /\ z = ZeroQueue

\* the first push on the zero-value queue gave it a store of capacity 1
C19_Witness ==
    /\ zpre.rep = Nil
    /\ zret.op = "PushBack"
    /\ len(z.rep) = 1
    /\ z.length = 1
    /\ z.rep[0] = entry(zret.arg)

\* a pop on the zero-value queue left its rep nil
C19_WitnessPop ==
    /\ zpre.rep = Nil
    /\ zret.op = "PopFront"
    /\ z.rep = Nil

====
